---------------------------- MODULE Spec2Model ----------------------------
(***************************************************************************)
(* Model of the AudioQualityChecker component (second iteration, the one   *)
(* with processAudio, bufferToWav and the range-based quality score).      *)
(*                                                                         *)
(* Conventions                                                             *)
(*  - Samples are kept in thousandths: the float 0.005 is the integer 5,   *)
(*    1.0 is 1000.  The silence threshold 0.01 is therefore 10.            *)
(*  - Arithmetic on the score is exact rational arithmetic (a fraction is  *)
(*    a pair <<numerator, denominator>>); IEEE rounding of the doubles the *)
(*    program uses is not modelled.                                        *)
(*  - Sequences are 1-based: frame i of the code is position i + 1 here.   *)
(*    Differences of positions (i - pauseStart) are the same in both.      *)
(*  - In the pipeline specifications the sample rate is a small number of  *)
(*    frames per second, so that half a second is one or two frames.       *)
(***************************************************************************)
EXTENDS Integers, Sequences, FiniteSets, TLC

VARIABLES
  audioFile,          \* useState<File | null>: the selected file (NoFile = null)
  audioUrl,           \* useState<string>: id of the file the object URL points to, 0 = ''
  metrics,            \* useState<AudioQualityMetrics | null>: <<>> = null, <<m>> otherwise
  isAnalyzing,        \* useState(false)
  filterSpeech,       \* useState(false)
  trimPauses,         \* useState(false)
  processedAudioUrl,  \* useState<string>: <<>> = '', <<blob>> = URL of the blob
  waveSrc,            \* what the WaveSurfer instance was last told to load
  pc,                 \* position of the processAudio invocation
  inv,                \* locals of the processAudio invocation (its closure and consts), the state
                      \* of its AudioContext, and (history) what was rendered when it started
  snap,               \* history: metrics/processedAudioUrl/waveSrc as left by everything but the invocation
  ref,                \* history: one earlier published output, kept for comparison
  scoreIn,            \* argument of a calculateQualityScore call
  scoreOut,           \* its result, <<>> before the call
  wavIn,              \* argument of a bufferToWav call
  wavOut              \* its result, <<>> before the call

vars == <<audioFile, audioUrl, metrics, isAnalyzing, filterSpeech, trimPauses,
          processedAudioUrl, waveSrc, pc, inv, snap, ref,
          scoreIn, scoreOut, wavIn, wavOut>>

uiVars == <<audioFile, audioUrl, metrics, isAnalyzing, filterSpeech, trimPauses,
            processedAudioUrl, waveSrc, pc, inv, snap, ref>>

-----------------------------------------------------------------------------
(* Bounds of the model                                                     *)

MaxLen == 3         \* frames per channel in the pipeline specifications
MaxRate == 3        \* largest sample rate (frames per second) in the pipeline specifications
WavMaxLen == 2      \* frames per channel in the encoder specification

-----------------------------------------------------------------------------
(* Arithmetic helpers                                                      *)

Abs(x) == IF x < 0 THEN -x ELSE x

Min(a, b) == IF a < b THEN a ELSE b

Max(a, b) == IF a > b THEN a ELSE b

\* Math.round of the non-negative rational n / d: the nearest integer, halves up.
MathRound(n, d) == (2 * n + d) \div (2 * d)

-----------------------------------------------------------------------------
(* calculateQualityScore                                                   *)

minFreq == 250
maxFreq == 4000
minBitrate == 128
maxBitrate == 320
maxScore == 100

FrequencyScoreNoUpperLimit(sampleRate) ==
  IF sampleRate >= minFreq * 2
  THEN <<50, 1>>
  ELSE <<sampleRate * 50, minFreq * 2>>

FrequencyScoreInverted(sampleRate) ==
  IF sampleRate >= minFreq * 2 /\ sampleRate <= maxFreq * 2
  THEN <<50, 1>>
  ELSE IF sampleRate < minFreq * 2
       THEN <<(minFreq * 2) * 50, sampleRate>>
       ELSE <<(maxFreq * 2) * 50, sampleRate>>

\* Frequency score (50 points) as a fraction.
FrequencyScore(sampleRate) ==
  IF sampleRate >= minFreq * 2 /\ sampleRate <= maxFreq * 2
  THEN <<50, 1>>
  ELSE IF sampleRate < minFreq * 2
       THEN <<sampleRate * 50, minFreq * 2>>
       ELSE <<(maxFreq * 2) * 50, sampleRate>>

BitrateScoreFlat(bitrate) ==
  IF bitrate >= minBitrate /\ bitrate <= maxBitrate
  THEN <<30, 1>>
  ELSE IF bitrate < minBitrate
       THEN <<bitrate * 30, minBitrate>>
       ELSE <<30, 1>>

\* Bitrate score (30 points) as a fraction.
BitrateScore(bitrate) ==
  IF bitrate >= minBitrate /\ bitrate <= maxBitrate
  THEN <<30, 1>>
  ELSE IF bitrate < minBitrate
       THEN <<bitrate * 30, minBitrate>>
       ELSE <<maxBitrate * 30, bitrate>>

\* Channels score (20 points).
ChannelsScore(channels) ==
  IF channels = 2 THEN 20 ELSE IF channels = 1 THEN 10 ELSE 0

\* score accumulates the three terms; the result is Math.min(maxScore, Math.round(score)).
calculateQualityScore(sampleRate, bitrate, channels) ==
  LET f == FrequencyScore(sampleRate)
      b == BitrateScore(bitrate)
      c == ChannelsScore(channels)
      num == f[1] * b[2] + b[1] * f[2] + c * f[2] * b[2]
      den == f[2] * b[2]
  IN  Min(maxScore, MathRound(num, den))

-----------------------------------------------------------------------------
(* bufferToWav                                                             *)

\* view.setUint16(offset, v, true): two bytes, little-endian, v modulo 2^16.
U16LE(v) == <<v % 256, (v \div 256) % 256>>

\* view.setUint32(offset, v, true): four bytes, little-endian, v modulo 2^32.
U32LE(v) == <<v % 256, (v \div 256) % 256, (v \div 65536) % 256, (v \div 16777216) % 256>>

\* view.setInt16(offset, x, true) for x = sample * 0x7FFF with sample in
\* thousandths: ToInt16 truncates towards zero and wraps modulo 2^16.
Int16LE(sampleMilli) ==
  LET scaled == sampleMilli * 32767
      trunc == IF scaled >= 0 THEN scaled \div 1000 ELSE -((-scaled) \div 1000)
  IN  U16LE((trunc + 65536) % 65536)

\* writeString: the char codes of the four tags.
TagRIFF == <<82, 73, 70, 70>>
TagWAVE == <<87, 65, 86, 69>>
TagFmt == <<102, 109, 116, 32>>
TagData == <<100, 97, 116, 97>>

RECURSIVE Zeros(_)
Zeros(n) == IF n <= 0 THEN <<>> ELSE <<0>> \o Zeros(n - 1)

\* The data loop: channel 0 only, two bytes per frame from offset 44.
RECURSIVE WavSamples(_, _)
WavSamples(channelData, i) ==
  IF i > Len(channelData) THEN <<>>
  ELSE Int16LE(Max(-1000, Min(1000, channelData[i]))) \o WavSamples(channelData, i + 1)

BlockAlignMono(numChannels) == 2

\* blockAlign = numChannels * bytesPerSample, bytesPerSample = bitDepth / 8.
BlockAlign(numChannels) == numChannels * (16 \div 8)

\* buffer is [sampleRate, channels (a sequence of channel data)].  The
\* ArrayBuffer has 44 + length * blockAlign zero bytes; the header and the
\* samples of channel 0 are written into it.
bufferToWav(buffer) ==
  LET numChannels == Len(buffer.channels)
      length == Len(buffer.channels[1])
      blockAlign == BlockAlign(numChannels)
      header == TagRIFF \o U32LE(36 + length * blockAlign) \o TagWAVE \o TagFmt
                \o U32LE(16) \o U16LE(1) \o U16LE(numChannels)
                \o U32LE(buffer.sampleRate) \o U32LE(buffer.sampleRate * blockAlign)
                \o U16LE(blockAlign) \o U16LE(16) \o TagData
                \o U32LE(length * blockAlign)
      data == WavSamples(buffer.channels[1], 1)
  IN  header \o data \o Zeros(length * blockAlign - Len(data))

-----------------------------------------------------------------------------
(* processAudio: buffers and the two transforms                            *)

threshold == 10     \* const threshold = 0.01, in thousandths

createBufferExtraFrame(numberOfChannels, length, sampleRate) ==
  [sampleRate |-> sampleRate,
   channels |-> [c \in 1..numberOfChannels |-> [i \in 1..(length + 1) |-> 0]]]

\* audioContext.createBuffer(numberOfChannels, length, sampleRate): every
\* sample of the new buffer is 0.
createBuffer(numberOfChannels, length, sampleRate) ==
  [sampleRate |-> sampleRate,
   channels |-> [c \in 1..numberOfChannels |-> [i \in 1..length |-> 0]]]

IsLongPauseOrEqual(runLength, sampleRate) == 2 * runLength >= sampleRate

\* i - pauseStart > audioBuffer.sampleRate * 0.5
IsLongPause(runLength, sampleRate) == 2 * runLength > sampleRate

\* One iteration of the trim loop for position i.  st carries the loop's
\* variables isPause and pauseStart, the output channel out, and zeroed,
\* the positions the inner loop (outputData[j] = 0) has written.
TrimStep(inputData, sampleRate, st, i) ==
  IF Abs(inputData[i]) < threshold
  THEN IF ~st.isPause
       THEN [st EXCEPT !.isPause = TRUE, !.pauseStart = i]
       ELSE st
  ELSE LET removed ==
             IF st.isPause /\ IsLongPause(i - st.pauseStart, sampleRate)
             THEN [st EXCEPT
                     !.out = [j \in 1..Len(st.out) |->
                                IF j >= st.pauseStart /\ j < i THEN 0 ELSE st.out[j]],
                     !.zeroed = st.zeroed \cup {j \in 1..Len(st.out) : j >= st.pauseStart /\ j < i}]
             ELSE st
       IN  [removed EXCEPT !.isPause = FALSE, !.out[i] = inputData[i]]

RECURSIVE TrimLoop(_, _, _, _)
TrimLoop(inputData, sampleRate, st, i) ==
  IF i > Len(inputData) THEN st
  ELSE TrimLoop(inputData, sampleRate, TrimStep(inputData, sampleRate, st, i), i + 1)

\* The trimPauses block for one channel: isPause = false, pauseStart = 0,
\* then the loop over the input frames.
TrimPauses(inputData, outputData, sampleRate) ==
  TrimLoop(inputData, sampleRate,
           [isPause |-> FALSE, pauseStart |-> 0, out |-> outputData, zeroed |-> {}], 1)

\* The filterSpeech block for one channel.  The BiquadFilterNode is connected
\* to the live context only; the OfflineAudioContext renders the unfiltered
\* source, and renderedBuffer.copyToChannel copies a channel of renderedBuffer
\* onto itself.  filteredData is never filled and outputData is not written.
FilterSpeech(inputData, outputData) == outputData

\* The body of the per-channel loop under the configuration cfg.
ProcessChannelData(inputData, outputData, sampleRate, cfg) ==
  LET filtered == IF cfg.filterSpeech THEN FilterSpeech(inputData, outputData) ELSE outputData
  IN  IF cfg.trimPauses
      THEN TrimPauses(inputData, filtered, sampleRate)
      ELSE [isPause |-> FALSE, pauseStart |-> 0, out |-> filtered, zeroed |-> {}]

\* Math.round((audioFile.size / processedBuffer.duration) * 8 / 1000) with
\* duration = length / sampleRate.
Bitrate(size, length, sampleRate) == MathRound(size * 8 * sampleRate, length * 1000)

-----------------------------------------------------------------------------
(* Values of the component state                                           *)

NoFile == [id |-> 0, size |-> 0, decodable |-> FALSE, sampleRate |-> 0, channels |-> <<>>]

NoBuffer == [sampleRate |-> 0, channels |-> <<>>]

NoSource == [kind |-> "none", of |-> 0, wav |-> <<>>]

NoInv == [file |-> NoFile, url |-> 0,
          cfg |-> [filterSpeech |-> FALSE, trimPauses |-> FALSE],
          audioBuffer |-> NoBuffer, processedBuffer |-> NoBuffer,
          channel |-> 0, zeroed |-> <<>>, wav |-> <<>>,
          audioContext |-> "none", before |-> <<>>]

Visible == <<metrics, processedAudioUrl, waveSrc>>

\* Everything the component renders from.
Rendered == <<audioFile, audioUrl, metrics, isAnalyzing, filterSpeech, trimPauses,
              processedAudioUrl, waveSrc>>

-----------------------------------------------------------------------------
(* Inputs                                                                  *)

\* Sample values: exact zero, a quiet 0.005, the smallest value that is not
\* below the threshold (10 stands for it) and a loud negative sample (so that
\* Math.abs matters).
Samples == {0, 5, 10, -500}

\* Sample values of the second channel of a stereo buffer.
OtherSamples == {5, -500}

\* Decoded buffers of the pipeline specification: mono and stereo, 1..MaxLen
\* frames, 2..MaxRate frames per second.
PipelineChannels ==
  UNION {{<<c0>> : c0 \in [1..n -> Samples]} \cup
         {<<c0, c1>> : c0 \in [1..n -> Samples], c1 \in [1..n -> OtherSamples]}
         : n \in 1..MaxLen}

PipelineFiles ==
  {[id |-> 1, size |-> 48000, decodable |-> TRUE, sampleRate |-> r, channels |-> chs]
     : r \in 2..MaxRate, chs \in PipelineChannels}

\* Files the user can pick in the component specification: a mono clip that
\* starts with a long pause, a stereo clip, and a file that does not decode.
UploadFiles ==
  {[id |-> 1, size |-> 48000, decodable |-> TRUE, sampleRate |-> 2,
    channels |-> <<<<5, 5, -500>>>>],
   [id |-> 2, size |-> 24000, decodable |-> TRUE, sampleRate |-> 3,
    channels |-> <<<<-500, 5, 10>>, <<5, -500, -500>>>>],
   [id |-> 3, size |-> 1000, decodable |-> FALSE, sampleRate |-> 0, channels |-> <<>>]}

ScoreSampleRates ==
  {1, 250, 498, 499, 500, 501, 1000, 2000, 4000, 8000, 8001, 16000, 44100, 48000}

ScoreInputs ==
  [sampleRate : ScoreSampleRates,
   bitrate : {1, 64, 96, 127, 128, 129, 192, 320, 321, 384},
   channels : 0..3]

NoScoreInput == [sampleRate |-> 0, bitrate |-> 0, channels |-> 0]

\* Buffers handed to bufferToWav in the encoder specification; the samples
\* include values outside [-1, 1].  Channels after the first hold 500.
WavSampleValues == {-1500, -1000, -5, 0, 500, 1000}

WavInputs ==
  {[sampleRate |-> r,
    channels |-> [c \in 1..n |-> IF c = 1 THEN c0 ELSE [i \in 1..Len(c0) |-> 500]]]
     : r \in {8000, 44100, 48000}, n \in 1..2,
       c0 \in UNION {[1..k -> WavSampleValues] : k \in 0..WavMaxLen}}

-----------------------------------------------------------------------------
(* Initial states                                                          *)

UIIdle ==
  /\ audioFile = NoFile
  /\ audioUrl = 0
  /\ metrics = <<>>
  /\ isAnalyzing = FALSE
  /\ filterSpeech = FALSE
  /\ trimPauses = FALSE
  /\ processedAudioUrl = <<>>
  /\ waveSrc = NoSource
  /\ pc = "Idle"
  /\ inv = NoInv
  /\ snap = <<<<>>, <<>>, NoSource>>
  /\ ref = <<>>

PureIdle ==
  /\ scoreIn = NoScoreInput
  /\ scoreOut = <<>>
  /\ wavIn = NoBuffer
  /\ wavOut = <<>>

\* The component after construction (the useState initial values).
Init == UIIdle /\ PureIdle

-----------------------------------------------------------------------------
(* Event handlers of the component                                         *)

\* handleFileUpload for a picked file, with the effect on [audioUrl] that
\* creates a WaveSurfer and loads the new URL.
handleFileUpload ==
  \E file \in UploadFiles :
    /\ audioFile' = file
    /\ audioUrl' = file.id
    /\ metrics' = <<>>
    /\ processedAudioUrl' = <<>>
    /\ waveSrc' = [kind |-> "file", of |-> file.id, wav |-> <<>>]
    /\ snap' = <<metrics', processedAudioUrl', waveSrc'>>
    /\ UNCHANGED <<isAnalyzing, filterSpeech, trimPauses, pc, inv, ref>>
    /\ UNCHANGED <<scoreIn, scoreOut, wavIn, wavOut>>

\* onChange of the "Filter Speech Frequencies" switch.
setFilterSpeech ==
  /\ filterSpeech' = ~filterSpeech
  /\ UNCHANGED <<audioFile, audioUrl, metrics, isAnalyzing, trimPauses,
                 processedAudioUrl, waveSrc, pc, inv, snap, ref>>
  /\ UNCHANGED <<scoreIn, scoreOut, wavIn, wavOut>>

\* onChange of the "Trim Pauses" switch.
setTrimPauses ==
  /\ trimPauses' = ~trimPauses
  /\ UNCHANGED <<audioFile, audioUrl, metrics, isAnalyzing, filterSpeech,
                 processedAudioUrl, waveSrc, pc, inv, snap, ref>>
  /\ UNCHANGED <<scoreIn, scoreOut, wavIn, wavOut>>

-----------------------------------------------------------------------------
(* processAudio, one action per stretch of code between two awaits         *)

pureVars == <<scoreIn, scoreOut, wavIn, wavOut>>

\* Click on "Process Audio" (rendered when audioFile is set, disabled while
\* isAnalyzing): the closure captures audioFile, audioUrl and both switches;
\* setIsAnalyzing(true), new AudioContext, then the fetch is awaited.
processAudio ==
  /\ audioFile # NoFile
  /\ ~isAnalyzing
  /\ isAnalyzing' = TRUE
  /\ pc' = "Fetching"
  /\ inv' = [NoInv EXCEPT !.file = audioFile, !.url = audioUrl,
                          !.cfg = [filterSpeech |-> filterSpeech, trimPauses |-> trimPauses],
                          !.audioContext = "open",
                          !.before = Rendered]
  /\ snap' = Visible
  /\ UNCHANGED <<audioFile, audioUrl, metrics, filterSpeech, trimPauses,
                 processedAudioUrl, waveSrc, ref>>
  /\ UNCHANGED pureVars

CatchFinallyClearing ==
  /\ isAnalyzing' = FALSE
  /\ pc' = "Failed"
  /\ metrics' = <<>>
  /\ processedAudioUrl' = <<>>
  /\ UNCHANGED <<audioFile, audioUrl, filterSpeech, trimPauses, waveSrc, inv, snap, ref>>
  /\ UNCHANGED pureVars

\* catch (console.error) and finally (setIsAnalyzing(false)) after a throw.
CatchFinally ==
  /\ isAnalyzing' = FALSE
  /\ pc' = "Failed"
  /\ UNCHANGED <<audioFile, audioUrl, metrics, filterSpeech, trimPauses,
                 processedAudioUrl, waveSrc, inv, snap, ref>>
  /\ UNCHANGED pureVars

\* Only locals of the invocation change.
LocalStep ==
  /\ UNCHANGED <<audioFile, audioUrl, metrics, isAnalyzing, filterSpeech, trimPauses,
                 processedAudioUrl, waveSrc, snap, ref>>
  /\ UNCHANGED pureVars

\* fetch(audioUrl) and response.arrayBuffer() resolve.
FetchOk ==
  /\ pc = "Fetching"
  /\ pc' = "Decoding"
  /\ UNCHANGED inv
  /\ LocalStep

\* fetch(audioUrl) or response.arrayBuffer() rejects.
FetchFail ==
  /\ pc = "Fetching"
  /\ CatchFinally

\* decodeAudioData resolves; processedBuffer is created; the channel loop starts.
DecodeOk ==
  /\ pc = "Decoding"
  /\ inv.file.decodable
  /\ pc' = "Transforming"
  /\ LET audioBuffer == [sampleRate |-> inv.file.sampleRate, channels |-> inv.file.channels]
     IN  inv' = [inv EXCEPT
                   !.audioBuffer = audioBuffer,
                   !.processedBuffer = createBuffer(Len(audioBuffer.channels),
                                                    Len(audioBuffer.channels[1]),
                                                    audioBuffer.sampleRate),
                   !.channel = 1,
                   !.zeroed = [c \in 1..Len(audioBuffer.channels) |-> {}]]
  /\ LocalStep

\* decodeAudioData rejects.
DecodeFail ==
  /\ pc = "Decoding"
  /\ ~inv.file.decodable
  /\ CatchFinally

ProcessChannelLive ==
  /\ pc = "Transforming"
  /\ inv.channel <= Len(inv.audioBuffer.channels)
  /\ LET c == inv.channel
         r == ProcessChannelData(inv.audioBuffer.channels[c], inv.processedBuffer.channels[c],
                                 inv.audioBuffer.sampleRate,
                                 [filterSpeech |-> filterSpeech, trimPauses |-> trimPauses])
     IN  inv' = [inv EXCEPT !.processedBuffer.channels[c] = r.out,
                            !.zeroed[c] = r.zeroed,
                            !.channel = c + 1]
  /\ UNCHANGED pc
  /\ LocalStep

\* One pass of the loop over the channels, under the switches as captured
\* when the invocation started.
ProcessChannel ==
  /\ pc = "Transforming"
  /\ inv.channel <= Len(inv.audioBuffer.channels)
  /\ LET c == inv.channel
         r == ProcessChannelData(inv.audioBuffer.channels[c], inv.processedBuffer.channels[c],
                                 inv.audioBuffer.sampleRate, inv.cfg)
     IN  inv' = [inv EXCEPT !.processedBuffer.channels[c] = r.out,
                            !.zeroed[c] = r.zeroed,
                            !.channel = c + 1]
  /\ UNCHANGED pc
  /\ LocalStep

\* new OfflineAudioContext throws or startRendering rejects (filterSpeech only).
ProcessChannelFail ==
  /\ pc = "Transforming"
  /\ inv.channel <= Len(inv.audioBuffer.channels)
  /\ inv.cfg.filterSpeech
  /\ CatchFinally

EncodeOkPublishing ==
  /\ pc = "Transforming"
  /\ inv.channel > Len(inv.audioBuffer.channels)
  /\ pc' = "Encoding"
  /\ inv' = [inv EXCEPT !.wav = bufferToWav(inv.processedBuffer)]
  /\ processedAudioUrl' = <<[of |-> inv.file.id, wav |-> inv'.wav]>>
  /\ UNCHANGED <<audioFile, audioUrl, metrics, isAnalyzing, filterSpeech, trimPauses,
                 waveSrc, snap, ref>>
  /\ UNCHANGED pureVars

\* After the last channel: bufferToWav(processedBuffer) runs and is awaited.
EncodeOk ==
  /\ pc = "Transforming"
  /\ inv.channel > Len(inv.audioBuffer.channels)
  /\ pc' = "Encoding"
  /\ inv' = [inv EXCEPT !.wav = bufferToWav(inv.processedBuffer)]
  /\ LocalStep

\* bufferToWav throws (the ArrayBuffer cannot be allocated).
EncodeFail ==
  /\ pc = "Transforming"
  /\ inv.channel > Len(inv.audioBuffer.channels)
  /\ CatchFinally

\* The rest of the try block and the finally block, with no await between:
\* createObjectURL, setProcessedAudioUrl, wavesurfer.load, bitrate,
\* calculateQualityScore, setMetrics, setIsAnalyzing(false).
Publish ==
  /\ pc = "Encoding"
  /\ pc' = "Done"
  /\ LET processedBuffer == inv.processedBuffer
         length == Len(processedBuffer.channels[1])
         bitrate == Bitrate(inv.file.size, length, processedBuffer.sampleRate)
         qualityScore == calculateQualityScore(processedBuffer.sampleRate, bitrate,
                                               Len(processedBuffer.channels))
     IN  /\ processedAudioUrl' = <<[of |-> inv.file.id, wav |-> inv.wav]>>
         /\ waveSrc' = [kind |-> "processed", of |-> inv.file.id, wav |-> inv.wav]
         /\ metrics' = <<[bitrate |-> bitrate,
                          sampleRate |-> processedBuffer.sampleRate,
                          channels |-> Len(processedBuffer.channels),
                          duration |-> <<length, processedBuffer.sampleRate>>,
                          qualityScore |-> qualityScore]>>
  /\ isAnalyzing' = FALSE
  /\ ref' \in IF ref = <<>>
              THEN {<<>>, <<[of |-> inv.file.id, cfg |-> inv.cfg, wav |-> inv.wav]>>}
              ELSE {ref}
  /\ UNCHANGED <<audioFile, audioUrl, filterSpeech, trimPauses, inv, snap>>
  /\ UNCHANGED pureVars

-----------------------------------------------------------------------------
(* Specifications                                                          *)

\* The component: uploads, switches and processAudio invocations in any order.
Next ==
  \/ handleFileUpload
  \/ setFilterSpeech
  \/ setTrimPauses
  \/ processAudio
  \/ FetchOk
  \/ FetchFail
  \/ DecodeOk
  \/ DecodeFail
  \/ ProcessChannel
  \/ ProcessChannelFail
  \/ EncodeOk
  \/ EncodeFail
  \/ Publish

Spec == Init /\ [][Next]_vars

\* The pipeline on its own: one decodable file is selected, the switches are
\* in any position, and processAudio runs to the end.
PipelineInit ==
  /\ audioFile \in PipelineFiles
  /\ audioUrl = audioFile.id
  /\ metrics = <<>>
  /\ isAnalyzing = FALSE
  /\ filterSpeech \in BOOLEAN
  /\ trimPauses \in BOOLEAN
  /\ processedAudioUrl = <<>>
  /\ waveSrc = [kind |-> "file", of |-> audioFile.id, wav |-> <<>>]
  /\ pc = "Idle"
  /\ inv = NoInv
  /\ snap = <<metrics, processedAudioUrl, waveSrc>>
  /\ ref = <<>>
  /\ PureIdle

PipelineNext ==
  \/ processAudio
  \/ FetchOk
  \/ DecodeOk
  \/ ProcessChannel
  \/ EncodeOk
  \/ Publish

SpecPipeline == PipelineInit /\ [][PipelineNext]_vars

\* calculateQualityScore on its own.
ScoreInit ==
  /\ UIIdle
  /\ scoreIn \in ScoreInputs
  /\ scoreOut = <<>>
  /\ wavIn = NoBuffer
  /\ wavOut = <<>>

CallScore ==
  /\ scoreOut = <<>>
  /\ scoreOut' = <<calculateQualityScore(scoreIn.sampleRate, scoreIn.bitrate, scoreIn.channels)>>
  /\ UNCHANGED <<scoreIn, wavIn, wavOut>>
  /\ UNCHANGED uiVars

SpecScore == ScoreInit /\ [][CallScore]_vars

\* bufferToWav on its own.
WavInit ==
  /\ UIIdle
  /\ scoreIn = NoScoreInput
  /\ scoreOut = <<>>
  /\ wavIn \in WavInputs
  /\ wavOut = <<>>

CallBufferToWav ==
  /\ wavOut = <<>>
  /\ wavOut' = bufferToWav(wavIn)
  /\ UNCHANGED <<scoreIn, scoreOut, wavIn>>
  /\ UNCHANGED uiVars

SpecWav == WavInit /\ [][CallBufferToWav]_vars

-----------------------------------------------------------------------------
(* The first iteration of the component: analyzeAudioQuality               *)

\* Math.min(100, baseScore + sampleRateScore + channelsScore) with baseScore
\* 50, sampleRateScore = sampleRate / 44100 * 25 and channelsScore =
\* numberOfChannels * 12.5, as a fraction over 88200.
calculateQualityScoreFirst(sampleRate, numberOfChannels) ==
  <<Min(100 * 88200, 50 * 88200 + 50 * sampleRate + 1102500 * numberOfChannels), 88200>>

\* handleFileUpload of the first iteration (there is no processedAudioUrl),
\* with the effect on [audioUrl].
handleFileUploadFirst ==
  \E file \in UploadFiles :
    /\ audioFile' = file
    /\ audioUrl' = file.id
    /\ metrics' = <<>>
    /\ waveSrc' = [kind |-> "file", of |-> file.id, wav |-> <<>>]
    /\ UNCHANGED <<isAnalyzing, filterSpeech, trimPauses, processedAudioUrl, pc, inv, snap, ref>>
    /\ UNCHANGED pureVars

\* Click on "Analyze Quality" (disabled while isAnalyzing):
\* setIsAnalyzing(true), new AudioContext, then the fetch is awaited.
analyzeAudioQuality ==
  /\ audioFile # NoFile
  /\ ~isAnalyzing
  /\ isAnalyzing' = TRUE
  /\ pc' = "Fetching"
  /\ inv' = [NoInv EXCEPT !.file = audioFile, !.url = audioUrl,
                          !.audioContext = "open", !.before = Rendered]
  /\ UNCHANGED <<audioFile, audioUrl, metrics, filterSpeech, trimPauses,
                 processedAudioUrl, waveSrc, snap, ref>>
  /\ UNCHANGED pureVars

\* An await of analyzeAudioQuality rejects: the function has no try block,
\* its promise rejects and none of the statements after the await runs.
AnalyzeThrows ==
  /\ pc' = "Failed"
  /\ UNCHANGED <<audioFile, audioUrl, metrics, isAnalyzing, filterSpeech, trimPauses,
                 processedAudioUrl, waveSrc, inv, snap, ref>>
  /\ UNCHANGED pureVars

\* fetch(audioUrl) and response.arrayBuffer() resolve.
AnalyzeFetchOk ==
  /\ pc = "Fetching"
  /\ pc' = "Decoding"
  /\ UNCHANGED inv
  /\ LocalStep

\* fetch(audioUrl) or response.arrayBuffer() rejects.
AnalyzeFetchFail ==
  /\ pc = "Fetching"
  /\ AnalyzeThrows

\* decodeAudioData resolves: calculateQualityScore, setMetrics,
\* setIsAnalyzing(false), audioContext.close().
AnalyzeDecodeOk ==
  /\ pc = "Decoding"
  /\ inv.file.decodable
  /\ pc' = "Done"
  /\ LET length == Len(inv.file.channels[1])
     IN  metrics' = <<[bitrate |-> Bitrate(inv.file.size, length, inv.file.sampleRate),
                       sampleRate |-> inv.file.sampleRate,
                       channels |-> Len(inv.file.channels),
                       duration |-> <<length, inv.file.sampleRate>>,
                       qualityScore |-> calculateQualityScoreFirst(inv.file.sampleRate,
                                                                   Len(inv.file.channels))]>>
  /\ isAnalyzing' = FALSE
  /\ inv' = [inv EXCEPT !.audioContext = "closed"]
  /\ UNCHANGED <<audioFile, audioUrl, filterSpeech, trimPauses, processedAudioUrl,
                 waveSrc, snap, ref>>
  /\ UNCHANGED pureVars

\* decodeAudioData rejects.
AnalyzeDecodeFail ==
  /\ pc = "Decoding"
  /\ ~inv.file.decodable
  /\ AnalyzeThrows

NextFirst ==
  \/ handleFileUploadFirst
  \/ analyzeAudioQuality
  \/ AnalyzeFetchOk
  \/ AnalyzeFetchFail
  \/ AnalyzeDecodeOk
  \/ AnalyzeDecodeFail

SpecFirst == Init /\ [][NextFirst]_vars

-----------------------------------------------------------------------------
(* Vocabulary of the properties                                            *)

\* The invocation has handed its processed buffer to bufferToWav.
Encoded == pc = "Encoding" \/ pc = "Done"

Frames(c) == 1..Len(inv.audioBuffer.channels[c])

ChannelIds == 1..Len(inv.audioBuffer.channels)

InSample(c, i) == inv.audioBuffer.channels[c][i]

OutSample(c, i) == inv.processedBuffer.channels[c][i]

\* Frame i of channel c is silent: abs(sample) < 0.01.
Silent(c, i) == Abs(InSample(c, i)) < 10

\* First and last frame of the maximal silent run that contains the silent frame i.
RunFirst(c, i) == CHOOSE s \in 1..i :
                    /\ \A j \in s..i : Silent(c, j)
                    /\ (s = 1 \/ ~Silent(c, s - 1))

RunLast(c, i) == CHOOSE e \in i..Len(inv.audioBuffer.channels[c]) :
                   /\ \A j \in i..e : Silent(c, j)
                   /\ (e = Len(inv.audioBuffer.channels[c]) \/ ~Silent(c, e + 1))

RunLength(c, i) == RunLast(c, i) - RunFirst(c, i) + 1

\* The run of frame i is ended by a non-silent frame (it is not open at the end).
RunClosed(c, i) == RunLast(c, i) < Len(inv.audioBuffer.channels[c])

SampleRateOfRun == inv.audioBuffer.sampleRate

\* Reading the 44-byte header back (offsets are 0-based as in the DataView).
ReadU16(bytes, offset) == bytes[offset + 1] + 256 * bytes[offset + 2]

ReadU32(bytes, offset) ==
  bytes[offset + 1] + 256 * bytes[offset + 2] + 65536 * bytes[offset + 3]
  + 16777216 * bytes[offset + 4]

ParsedHeader(bytes) ==
  [numChannels |-> ReadU16(bytes, 22),
   sampleRate |-> ReadU32(bytes, 24),
   bitsPerSample |-> ReadU16(bytes, 34),
   dataBytes |-> ReadU32(bytes, 40)]

-----------------------------------------------------------------------------
(* Properties                                                              *)

\* C1: with both switches off, the buffer handed to the encoder is the decoded
\* buffer: every processed sample equals the decoded sample at the same
\* channel and frame.
C1_UnmodifiedWithoutTransforms ==
  (Encoded /\ ~inv.cfg.filterSpeech /\ ~inv.cfg.trimPauses) =>
    \A c \in ChannelIds : \A i \in Frames(c) : OutSample(c, i) = InSample(c, i)

\* C2 as stated: calculateQualityScore(44100 Hz, 192 kbps) is 100 for two
\* channels and 90 for one.
C2_ScoreAt44100AsStated ==
  (scoreOut # <<>> /\ scoreIn.sampleRate = 44100 /\ scoreIn.bitrate = 192) =>
    /\ scoreIn.channels = 2 => scoreOut[1] = 100
    /\ scoreIn.channels = 1 => scoreOut[1] = 90

\* C2 amended: calculateQualityScore(44100 Hz, 192 kbps) is 59 for two channels
\* and 49 for one: 44100 lies above the window, so the frequency term is
\* 50 * 8000 / 44100, about 9.07; the bitrate term is 30, the channel term 20 or 10.
C2_ScoreAt44100 ==
  (scoreOut # <<>> /\ scoreIn.sampleRate = 44100 /\ scoreIn.bitrate = 192) =>
    /\ scoreIn.channels = 2 => scoreOut[1] = 59
    /\ scoreIn.channels = 1 => scoreOut[1] = 49

C2_Witness ==
  /\ scoreOut # <<>>
  /\ scoreIn.sampleRate = 44100
  /\ scoreIn.bitrate = 192
  /\ scoreIn.channels = 2

\* C3: with trimPauses on, every non-silent frame and every frame of a silent
\* run no longer than half a second comes out equal to the input sample.
C3_ShortRunsCopiedThrough ==
  (Encoded /\ inv.cfg.trimPauses) =>
    \A c \in ChannelIds : \A i \in Frames(c) :
      (~Silent(c, i) \/ 2 * RunLength(c, i) <= SampleRateOfRun)
        => OutSample(c, i) = InSample(c, i)

\* C4: with trimPauses on, a silent run that is ended by a non-silent frame and
\* is strictly longer than half a second has been zeroed by the removal loop,
\* and a closed run of exactly half a second has not been touched by it.
C4_LongClosedRunsZeroed ==
  (Encoded /\ inv.cfg.trimPauses) =>
    \A c \in ChannelIds : \A i \in Frames(c) :
      (Silent(c, i) /\ RunClosed(c, i)) =>
        /\ 2 * RunLength(c, i) > SampleRateOfRun
             => (OutSample(c, i) = 0 /\ i \in inv.zeroed[c])
        /\ 2 * RunLength(c, i) = SampleRateOfRun
             => i \notin inv.zeroed[c]

C4_Witness ==
  /\ pc = "Done"
  /\ inv.cfg.trimPauses
  /\ \E c \in ChannelIds : \E i \in Frames(c) :
       /\ Silent(c, i) /\ RunClosed(c, i)
       /\ 2 * RunLength(c, i) > SampleRateOfRun
       /\ InSample(c, i) # 0
       /\ OutSample(c, i) = 0
  /\ \E c \in ChannelIds : \E i \in Frames(c) :
       /\ Silent(c, i) /\ RunClosed(c, i)
       /\ 2 * RunLength(c, i) = SampleRateOfRun

\* C5: with trimPauses on, the frames of a silent run still open at the last
\* frame of a channel come out equal to the input samples.
C5_TrailingRunKept ==
  (Encoded /\ inv.cfg.trimPauses) =>
    \A c \in ChannelIds : \A i \in Frames(c) :
      (Silent(c, i) /\ ~RunClosed(c, i)) => OutSample(c, i) = InSample(c, i)

\* C6 as stated: the header of bufferToWav's output reads back the sample rate,
\* 16 bits per sample and a data byte count of N * 2, whatever the channel count.
C6_HeaderRoundTripAsStated ==
  wavOut # <<>> =>
    LET h == ParsedHeader(wavOut)
        N == Len(wavIn.channels[1])
    IN  /\ h.sampleRate = wavIn.sampleRate
        /\ h.bitsPerSample = 16
        /\ h.dataBytes = N * 2

\* C6 amended: the header reads back the sample rate, 16 bits per sample and a
\* data byte count of N * C * 2, which is also the size of the data section;
\* the first N * 2 data bytes are the samples of channel 0 and the rest are 0.
C6_HeaderRoundTrip ==
  wavOut # <<>> =>
    LET h == ParsedHeader(wavOut)
        N == Len(wavIn.channels[1])
        C == Len(wavIn.channels)
    IN  /\ h.sampleRate = wavIn.sampleRate
        /\ h.bitsPerSample = 16
        /\ h.numChannels = C
        /\ h.dataBytes = N * C * 2
        /\ Len(wavOut) = 44 + N * C * 2
        /\ \A k \in (44 + N * 2 + 1)..Len(wavOut) : wavOut[k] = 0

C6_Witness ==
  /\ wavOut # <<>>
  /\ Len(wavIn.channels) = 2
  /\ Len(wavIn.channels[1]) = 2
  /\ wavIn.sampleRate = 44100

\* C7: for sampleRate > 0, bitrate > 0 and channels >= 0 the score is the
\* integer nearest to min(100, f + b + c), halves up, and lies in 0..100; f is
\* 50 in [500, 8000], 50 * sampleRate / 500 below, 50 * 8000 / sampleRate above;
\* b is 30 in [128, 320], 30 * bitrate / 128 below, 30 * 320 / bitrate above;
\* c is 20 for two channels, 10 for one, 0 otherwise.
C7_ScoreFormula ==
  (scoreOut # <<>> /\ scoreIn.sampleRate > 0 /\ scoreIn.bitrate > 0 /\ scoreIn.channels >= 0) =>
    LET sr == scoreIn.sampleRate
        br == scoreIn.bitrate
        ch == scoreIn.channels
        f == IF sr < 500 THEN <<50 * sr, 500>>
             ELSE IF sr > 8000 THEN <<50 * 8000, sr>> ELSE <<50, 1>>
        b == IF br < 128 THEN <<30 * br, 128>>
             ELSE IF br > 320 THEN <<30 * 320, br>> ELSE <<30, 1>>
        c == IF ch = 2 THEN 20 ELSE IF ch = 1 THEN 10 ELSE 0
        D == f[2] * b[2]
        N == f[1] * b[2] + b[1] * f[2] + c * D
        M == IF N > 100 * D THEN 100 * D ELSE N
        r == scoreOut[1]
    IN  /\ r \in 0..100
        /\ (2 * r - 1) * D <= 2 * M
        /\ 2 * M < (2 * r + 1) * D

C7_Witness ==
  /\ scoreOut # <<>>
  /\ scoreIn.sampleRate = 8001
  /\ scoreIn.bitrate = 321
  /\ scoreIn.channels = 1
  /\ scoreOut[1] = 90

\* C8: a failed processAudio invocation has changed none of metrics,
\* processedAudioUrl and the waveform source: they are as the last upload, or
\* the state at the start of the invocation, left them.
C8_FailureLeavesNoSideEffects ==
  pc = "Failed" => Visible = snap

C8_Witness ==
  /\ pc = "Failed"
  /\ metrics # <<>>
  /\ processedAudioUrl # <<>>
  /\ waveSrc.kind = "processed"

\* C9: what is exposed (metrics, processedAudioUrl) never comes from an
\* invocation on a file other than the selected one, that is, from an
\* invocation abandoned by a later upload.
C9_NoOutputOfAbandonedInvocation ==
  /\ processedAudioUrl # <<>> => processedAudioUrl[1].of = audioFile.id
  /\ metrics # <<>> => (processedAudioUrl # <<>> /\ processedAudioUrl[1].of = audioFile.id)

\* C10: an invocation on the same file under the same switches as an earlier
\* invocation encodes the same bytes, whatever happened in between.
C10_SameInputSameBytes ==
  (Encoded /\ ref # <<>> /\ ref[1].of = inv.file.id /\ ref[1].cfg = inv.cfg) =>
    inv.wav = ref[1].wav

C10_Witness ==
  /\ pc = "Encoding"
  /\ ref # <<>>
  /\ ref[1].of = inv.file.id
  /\ ref[1].cfg = inv.cfg
  /\ inv.cfg.trimPauses
  /\ ~trimPauses
  /\ \E k \in 45..Len(inv.wav) : inv.wav[k] # 0


\* C11: under every combination of the switches the processed buffer has the
\* frame count, channel count and sample rate of the decoded buffer, and the
\* metrics report the duration, channels and sample rate of the decoded input.
C11_SameShapeAsDecoded ==
  (pc \in {"Transforming", "Encoding", "Done"}) =>
    /\ Len(inv.processedBuffer.channels) = Len(inv.audioBuffer.channels)
    /\ \A c \in ChannelIds :
         Len(inv.processedBuffer.channels[c]) = Len(inv.audioBuffer.channels[c])
    /\ inv.processedBuffer.sampleRate = inv.audioBuffer.sampleRate
    /\ pc = "Done" =>
         /\ metrics # <<>>
         /\ metrics[1].channels = Len(inv.audioBuffer.channels)
         /\ metrics[1].sampleRate = inv.audioBuffer.sampleRate
         /\ metrics[1].duration = <<Len(inv.audioBuffer.channels[1]), inv.audioBuffer.sampleRate>>

C11_Witness ==
  /\ pc = "Done"
  /\ inv.cfg.filterSpeech
  /\ inv.cfg.trimPauses
  /\ Len(inv.audioBuffer.channels) = 2
  /\ inv.zeroed[1] # {}
  /\ metrics # <<>>


\* The state of the orchestrator's state machine an invocation is in: the
\* fetch and the decode are both "Decoding"; "Scoring" is passed through
\* inside the step that ends in "Done".
Stage == IF pc \in {"Fetching", "Decoding"} THEN "Decoding" ELSE pc

StageRank(stage) ==
  CASE stage = "Idle" -> 0
    [] stage = "Decoding" -> 1
    [] stage = "Transforming" -> 2
    [] stage = "Encoding" -> 3
    [] stage = "Done" -> 5
    [] OTHER -> 6

C13_ContextReleasedOnExit ==
  pc \in {"Done", "Failed"} => inv.audioContext = "closed"

\* C16: after a failed invocation the state the component renders from
\* differs from what it was when the invocation started (the failure can be
\* told from no invocation at all).
C16_FailureDistinguishable ==
  pc = "Failed" => Rendered # inv.before


\* A stand-in for the band-pass filter as a function of one channel: the
\* feed-forward part of a band-pass biquad (b0 = -b2, b1 = 0) with gain 1/2,
\* y[i] = (x[i] - x[i-2]) / 2.  Like the real filter it maps silence to
\* silence and changes every channel that is not silent from its first frame.
BandPass(data) ==
  [i \in 1..Len(data) |-> (data[i] - (IF i > 2 THEN data[i - 2] ELSE 0)) \div 2]

\* C14: with filterSpeech on (and trimPauses off), every channel of the
\* buffer handed to the encoder is the band-pass filter applied to that
\* channel of the decoded buffer.
C14_FilteredWhenFilterSpeech ==
  (Encoded /\ inv.cfg.filterSpeech /\ ~inv.cfg.trimPauses) =>
    \A c \in ChannelIds : inv.processedBuffer.channels[c] = BandPass(inv.audioBuffer.channels[c])


\* C15: for two channels and a bitrate in [64, 128], the score at a sample
\* rate up to 2000 is at least the score at every lower sample rate; the
\* frequency term is exactly 50 at 500 and strictly below 50 under 500.
C15_MonotoneTowardsWindow ==
  (scoreOut # <<>> /\ scoreIn.channels = 2 /\ scoreIn.bitrate \in 64..128
     /\ scoreIn.sampleRate <= 2000) =>
    /\ \A lower \in {r \in ScoreSampleRates : r <= scoreIn.sampleRate} :
         calculateQualityScore(lower, scoreIn.bitrate, 2) <= scoreOut[1]
    /\ scoreIn.sampleRate = 500 =>
         FrequencyScore(scoreIn.sampleRate)[1] = 50 * FrequencyScore(scoreIn.sampleRate)[2]
    /\ scoreIn.sampleRate < 500 =>
         FrequencyScore(scoreIn.sampleRate)[1] < 50 * FrequencyScore(scoreIn.sampleRate)[2]

C15_Witness ==
  /\ scoreOut # <<>>
  /\ scoreIn.channels = 2
  /\ scoreIn.bitrate = 96
  /\ scoreIn.sampleRate = 500
  /\ scoreOut[1] = 93
  /\ calculateQualityScore(499, 96, 2) < 93


\* C17: a started analysis that has ended, by completing or by throwing, has
\* set isAnalyzing back to false (so the button is enabled again).
C17_AnalyzingResetWhenEnded ==
  pc \in {"Done", "Failed"} => ~isAnalyzing

=============================================================================
